---- MODULE Spec2Model ----
(***************************************************************************)
(* Model of the CASM SNAP F-engine packetizer control software:            *)
(*   blocks/packetizer.py  Packetizer.__init__, get_packet_info,            *)
(*                         write_config and the bit-field helpers           *)
(*   snap_fengine.py       SnapFengine._configure_output                    *)
(*                                                                         *)
(* Python floats are modelled as exact rationals <<num, den>> with den > 0, *)
(* kept in lowest terms; Python's // and % are modelled with their floor    *)
(* semantics for negative operands.  Exceptions are modelled as a record    *)
(* [type, line] naming the exception class and the source line raising it.  *)
(***************************************************************************)
EXTENDS Integers, Sequences, FiniteSets, TLC

VARIABLES
    pkz,     \* the Packetizer object under test (fields set by __init__)
    ret,     \* outcome of the last Packetizer.get_packet_info call
    feng,    \* the SnapFengine object (n_inputs, n_chans, sample rate)
    hw,      \* the packetizer's register regions as last written
    reorder, \* the channel-reorder map as last set
    out,     \* outcome of the last SnapFengine._configure_output call
    wr,      \* outcome of the last direct Packetizer.write_config call
    cfg,     \* the SnapFengine.configure call in progress: arguments, position, calls made
    eqb      \* the Eq block: fields set by __init__, the BRAM regions accessed so far

-----------------------------------------------------------------------------
(* Python integer and float arithmetic *)

\* Python's a // b on ints: floor division, also for negative operands.
PyFloorDiv(a, b) == IF b > 0 THEN a \div b ELSE (0 - a) \div (0 - b)

\* Python's a % b on ints: the result takes the sign of b.
PyMod(a, b) == a - b * PyFloorDiv(a, b)

Abs(a) == IF a < 0 THEN 0 - a ELSE a

\* The element of a one-element set. A local variable that is assigned once
\* and read many times is bound as x in Only({e(x) : x \in {v}}), so that v is
\* computed once, as the assignment computes it.
Only(S) == CHOOSE x \in S : TRUE

RECURSIVE GCD(_, _)
GCD(a, b) == IF b = 0 THEN Abs(a) ELSE GCD(b, PyMod(a, Abs(b)))

\* A float value as an exact rational in lowest terms with a positive denominator.
Rat(n, d) ==
    LET g == GCD(n, d)
        s == IF d < 0 THEN 0 - 1 ELSE 1
    IN  <<s * (n \div g), s * (d \div g)>>

RInt(k) == <<k, 1>>

\* a * b, cross-reduced first so that the products stay small.
RMul(a, b) ==
    LET x == Rat(a[1], b[2])
        y == Rat(b[1], a[2])
    IN  Rat(x[1] * y[1], x[2] * y[2])

\* a / b for b # 0.
RDiv(a, b) == RMul(a, Rat(b[2], b[1]))

RLt(a, b) == a[1] * b[2] < b[1] * a[2]
RLe(a, b) == a[1] * b[2] <= b[1] * a[2]
RGt(a, b) == RLt(b, a)
RGe(a, b) == RLe(b, a)

\* int(np.floor(x))
RFloor(a) == a[1] \div a[2]

-----------------------------------------------------------------------------
(* Program constants *)

sample_width == 1
word_width == 8
line_rate_gbps == 10
PROTOCOL_OVERHEAD_BYTES == 16 + 18 + 20 + 8
MAX_PAYLOAD_BYTES == 8192

NoErr == [type |-> "", line |-> 0]
Err(t, l) == [type |-> t, line |-> l]

-----------------------------------------------------------------------------
(* Packetizer.__init__ *)

NoPacketizer ==
    [ctor |-> "none", n_chans |-> 0, n_signals |-> 0, n_signals_real |-> 0,
     n_words_per_block |-> 0, sample_rate_mhz |-> 0, n_total_words |-> 0,
     n_total_blocks |-> 0, n_words_per_chan |-> 0, n_chans_per_block |-> 0]

\* A constructor without the assertion of line 64: the quotient is taken as is.
PacketizerInitUnchecked(n_chans, n_signals, n_signals_real, n_words_per_block, sample_rate_mhz) ==
    LET n_words_per_chan == PyFloorDiv(sample_width * n_signals, word_width)
    IN  [ctor |-> IF n_words_per_chan = 0 THEN "ZeroDivisionError" ELSE "ok",
         n_chans |-> n_chans, n_signals |-> n_signals,
         n_signals_real |-> n_signals_real,
         n_words_per_block |-> n_words_per_block,
         sample_rate_mhz |-> sample_rate_mhz,
         n_total_words |-> PyFloorDiv(sample_width * n_chans * n_signals, word_width),
         n_total_blocks |->
             PyFloorDiv(PyFloorDiv(sample_width * n_chans * n_signals, word_width),
                        n_words_per_block),
         n_words_per_chan |-> n_words_per_chan,
         n_chans_per_block |->
             IF n_words_per_chan = 0 THEN 0
             ELSE PyFloorDiv(n_words_per_block, n_words_per_chan)]

PacketizerInit(n_chans, n_signals, n_signals_real, n_words_per_block, sample_rate_mhz) ==
    LET n_total_words    == PyFloorDiv(sample_width * n_chans * n_signals, word_width)
        n_total_blocks   == PyFloorDiv(n_total_words, n_words_per_block)
        n_words_per_chan == PyFloorDiv(sample_width * n_signals, word_width)
        obj == [ctor |-> "ok", n_chans |-> n_chans, n_signals |-> n_signals,
                n_signals_real |-> n_signals_real,
                n_words_per_block |-> n_words_per_block,
                sample_rate_mhz |-> sample_rate_mhz,
                n_total_words |-> n_total_words,
                n_total_blocks |-> n_total_blocks,
                n_words_per_chan |-> n_words_per_chan,
                n_chans_per_block |-> 0]
    IN  IF n_words_per_chan = 0
        THEN [obj EXCEPT !.ctor = "ZeroDivisionError"]
        ELSE IF PyMod(n_words_per_block, n_words_per_chan) # 0
        THEN [obj EXCEPT !.ctor = "AssertionError"]
        ELSE [obj EXCEPT !.n_chans_per_block =
                             PyFloorDiv(n_words_per_block, n_words_per_chan)]

\* self.full_data_rate_gbps, in Gbit/s: 8*sample_width*n_signals_real*sample_rate_mhz*1e6/2/1e9
full_data_rate_gbps(p) ==
    Rat(8 * sample_width * p.n_signals_real * p.sample_rate_mhz, 2 * 1000)

-----------------------------------------------------------------------------
(* Packetizer.get_packet_info *)

\* A Python range(start, stop) is the pair <<start, stop>>; its elements:
RangeSet(r) == {i \in r[1]..(r[2] - 1) : TRUE}
RangeLen(r) == IF r[2] > r[1] THEN r[2] - r[1] ELSE 0

\* A search that takes the first candidate strictly after the cursor.
FindStartStrictlyAfter(p, w_cnt) ==
    LET step == p.n_chans_per_block * p.n_words_per_chan
        n    == (p.n_chans + p.n_chans_per_block - 1) \div p.n_chans_per_block
        k    == IF w_cnt < 0 THEN 0 ELSE (w_cnt \div step) + 1
    IN  IF k < n THEN k * step ELSE w_cnt

\* for i in possible_start_words: if i >= w_cnt: w_cnt = i; break
\* The candidates are the progression 0, step, 2*step, ... (n of them), so the
\* scan stops at index ceil(w_cnt / step), or finds nothing and leaves w_cnt.
FindStart(p, w_cnt) ==
    LET step == p.n_chans_per_block * p.n_words_per_chan
        n    == (p.n_chans + p.n_chans_per_block - 1) \div p.n_chans_per_block
        k    == IF w_cnt <= 0 THEN 0 ELSE (w_cnt + step - 1) \div step
    IN  IF k < n THEN k * step ELSE w_cnt

EmptyPlan == [packet_starts |-> <<>>, packet_payloads |-> <<>>, channel_indices |-> <<>>]

\* packet_starts += [w_cnt // self.n_words_per_block]     (cursor before the search)
PacketStart(p, w_cnt) == PyFloorDiv(w_cnt, p.n_words_per_block)

\* A payload range counted in words rather than blocks.
PayloadRangeInWords(p, n_pkt_chans, w) == <<w, w + n_pkt_chans * p.n_words_per_chan>>

\* range(w_cnt // n_words_per_block, (w_cnt + n_pkt_chans * n_words_per_chan) // n_words_per_block)
PayloadRange(p, n_pkt_chans, w) ==
    <<PyFloorDiv(w, p.n_words_per_block),
      PyFloorDiv(w + n_pkt_chans * p.n_words_per_chan, p.n_words_per_block)>>

\* range(w_cnt // n_words_per_chan, w_cnt // n_words_per_chan + n_pkt_chans)
ChannelRange(p, n_pkt_chans, w) ==
    <<PyFloorDiv(w, p.n_words_per_chan), PyFloorDiv(w, p.n_words_per_chan) + n_pkt_chans>>

\* assert (w_cnt < self.n_total_words), after the payload was added to the cursor
PayloadFits(p, wend) == wend < p.n_total_words

\* One iteration of the loop "for pkt in range(n_pkts)" (lines 160-181) on the
\* loop state st = [err, w_cnt, plan]; an iteration after a failed assertion
\* does not run.
LoopBody(p, n_pkt_chans, spare_chans_per_packet, st) ==
    IF st.err.type # "" THEN st
    ELSE IF PyMod(st.w_cnt, p.n_words_per_block) # 0
    THEN [st EXCEPT !.err = Err("AssertionError", 160)]
    ELSE
      LET w    == FindStart(p, st.w_cnt)
          wend == w + n_pkt_chans * p.n_words_per_chan
      IN  IF PyMod(w, p.n_words_per_block) # 0
          THEN [st EXCEPT !.err = Err("AssertionError", 168)]
          ELSE IF PyMod(wend, p.n_words_per_block) # 0
          THEN [st EXCEPT !.err = Err("AssertionError", 169)]
          ELSE IF ~PayloadFits(p, wend)
          THEN [st EXCEPT !.err = Err("AssertionError", 178)]
          ELSE [err   |-> NoErr,
                w_cnt |-> wend + spare_chans_per_packet * p.n_words_per_chan,
                plan  |->
                  [packet_starts |->
                       Append(st.plan.packet_starts, PacketStart(p, st.w_cnt)),
                   packet_payloads |->
                       Append(st.plan.packet_payloads, PayloadRange(p, n_pkt_chans, w)),
                   channel_indices |->
                       Append(st.plan.channel_indices, ChannelRange(p, n_pkt_chans, w))]]

\* The loop body run k times in sequence from st (k <= 0: not at all, as
\* range(n_pkts) is empty for n_pkts <= 0).
RECURSIVE Repeat(_, _, _, _, _)
Repeat(p, n_pkt_chans, spare_chans_per_packet, st, k) ==
    IF k <= 0 THEN st
    ELSE IF k = 1 THEN LoopBody(p, n_pkt_chans, spare_chans_per_packet, st)
    ELSE LET half == Repeat(p, n_pkt_chans, spare_chans_per_packet, st, k \div 2)
         IN  IF half.err.type # "" THEN half
             ELSE Repeat(p, n_pkt_chans, spare_chans_per_packet, half, k - (k \div 2))

\* Lines 155-182: the whole loop from w_cnt = 0; a failed assertion returns no plan.
PlanLoop(p, n_pkt_chans, n_pkts, spare_chans_per_packet) ==
    LET st == Repeat(p, n_pkt_chans, spare_chans_per_packet,
                     [err |-> NoErr, w_cnt |-> 0, plan |-> EmptyPlan], n_pkts)
    IN  IF st.err.type # "" THEN [err |-> st.err, plan |-> EmptyPlan]
        ELSE [err |-> NoErr, plan |-> st.plan]

\* The advisory threshold of line 128: actual_occupancy > 0.95
ADVISORY_OCCUPANCY == Rat(95, 100)

\* pkt_size = n_pkt_chans * self.n_words_per_chan * self.word_width
pkt_size_of(p, n_pkt_chans) == n_pkt_chans * p.n_words_per_chan * word_width

\* A size check that also refuses a payload of exactly the maximum.
PktSizeBelowMax(pkt_size) == pkt_size < MAX_PAYLOAD_BYTES

\* assert pkt_size <= 8192
PktSizeAllowed(pkt_size) == pkt_size <= MAX_PAYLOAD_BYTES

\* assert occupation < 1
OccupationAllowed(occupation) == RLt(occupation, RInt(1))

\* chan_frac = occupation * line_rate_gbps / full_data_rate_gbps
\* n_sent_chans = int(np.floor(chan_frac * n_chans))
n_sent_max(p, occupation) ==
    RFloor(RMul(RDiv(RMul(occupation, RInt(line_rate_gbps)), full_data_rate_gbps(p)),
                RInt(p.n_chans)))

\* n_pkts = n_sent_chans // n_pkt_chans       (n_pkt_chans # 0)
n_pkts_of(p, n_pkt_chans, occupation) ==
    PyFloorDiv(n_sent_max(p, occupation), n_pkt_chans)

\* An occupancy that leaves the protocol overhead out.
OccupancyOfPayloadOnly(p, n_sent_chans, pkt_size) ==
    RDiv(RMul(Rat(n_sent_chans, p.n_chans), full_data_rate_gbps(p)), RInt(line_rate_gbps))

\* overhead, actual_throughput, actual_datarate, actual_occupancy (lines 120-126)
occupancy_of(p, n_sent_chans, pkt_size) ==
    LET overhead          == Rat(pkt_size + PROTOCOL_OVERHEAD_BYTES, pkt_size)
        actual_throughput == RMul(Rat(n_sent_chans, p.n_chans), full_data_rate_gbps(p))
        actual_datarate   == RMul(actual_throughput, overhead)
    IN  RDiv(actual_datarate, RInt(line_rate_gbps))

\* if actual_occupancy >= 1: raise RuntimeError
ExceedsLineRate(actual_occupancy) == RGe(actual_occupancy, RInt(1))

\* A padding rounded up, not down, to whole packets and whole blocks.
SpareChansRoundedUp(p, n_sent_chans, n_pkts) ==
    p.n_chans_per_block *
    (0 - PyFloorDiv(PyFloorDiv(0 - (p.n_chans - n_sent_chans), n_pkts),
                    p.n_chans_per_block))

\* A padding one block short of the even share.
SpareChansOneBlockShort(p, n_sent_chans, n_pkts) ==
    p.n_chans_per_block *
    (PyFloorDiv(PyFloorDiv(p.n_chans - n_sent_chans, n_pkts), p.n_chans_per_block) - 1)

\* spare_chans_per_packet (lines 150-153), for n_pkts # 0
SpareChansPerPacket(p, n_sent_chans, n_pkts) ==
    p.n_chans_per_block *
    PyFloorDiv(PyFloorDiv(p.n_chans - n_sent_chans, n_pkts), p.n_chans_per_block)

\* The result of a call: the exception raised (err.type = "" when it returns),
\* the returned triple, and the values the call logged on the way.
Result(err, plan, n_pkts, n_sent_chans, spare, occ, crit) ==
    [err |-> err,
     packet_starts   |-> plan.packet_starts,
     packet_payloads |-> plan.packet_payloads,
     channel_indices |-> plan.channel_indices,
     n_pkts |-> n_pkts, n_sent_chans |-> n_sent_chans,
     spare_chans_per_packet |-> spare,
     actual_occupancy |-> occ, critical |-> crit]

get_packet_info(p, n_pkt_chans, occupation) ==
    IF PyMod(n_pkt_chans, p.n_chans_per_block) # 0
    THEN Result(Err("AssertionError", 98), EmptyPlan, 0, 0, 0, RInt(0), FALSE)
    ELSE IF ~OccupationAllowed(occupation)
    THEN Result(Err("AssertionError", 100), EmptyPlan, 0, 0, 0, RInt(0), FALSE)
    ELSE IF ~PktSizeAllowed(pkt_size_of(p, n_pkt_chans))
    THEN Result(Err("AssertionError", 102), EmptyPlan, 0, 0, 0, RInt(0), FALSE)
    ELSE IF n_pkt_chans = 0
    THEN Result(Err("ZeroDivisionError", 114), EmptyPlan, 0, 0, 0, RInt(0), FALSE)
    ELSE
      LET pkt_size     == pkt_size_of(p, n_pkt_chans)
          n_pkts       == n_pkts_of(p, n_pkt_chans, occupation)
          n_sent_chans == n_pkt_chans * n_pkts
          occ          == occupancy_of(p, n_sent_chans, pkt_size)
          crit         == RGt(occ, ADVISORY_OCCUPANCY)
          n_blocks_used == PyFloorDiv(n_sent_chans, p.n_chans_per_block)
          spare_blocks  == p.n_total_blocks - n_blocks_used
          spare_words   == spare_blocks * p.n_words_per_block
      IN  IF ExceedsLineRate(occ)
          THEN Result(Err("RuntimeError", 132), EmptyPlan, n_pkts, n_sent_chans, 0, occ, crit)
          ELSE IF PyMod(spare_words, p.n_words_per_chan) # 0
          THEN Result(Err("AssertionError", 147), EmptyPlan, n_pkts, n_sent_chans, 0, occ, crit)
          ELSE IF ~(spare_words >= 0)
          THEN Result(Err("AssertionError", 148), EmptyPlan, n_pkts, n_sent_chans, 0, occ, crit)
          ELSE IF n_pkts = 0
          THEN Result(Err("ZeroDivisionError", 150), EmptyPlan, n_pkts, n_sent_chans, 0, occ, crit)
          ELSE
            LET spare_chans_per_packet == SpareChansPerPacket(p, n_sent_chans, n_pkts)
                loop == PlanLoop(p, n_pkt_chans, n_pkts, spare_chans_per_packet)
            IN  Result(loop.err, loop.plan, n_pkts, n_sent_chans,
                       spare_chans_per_packet, occ, crit)

-----------------------------------------------------------------------------
(* Packetizer bit fields and write_config *)

\* flags = (int(is_eof) << 2) + (int(is_valid) << 1) + (int(is_header) << 0)
B2I(b) == IF b THEN 1 ELSE 0
format_flags(is_header, is_valid, is_eof) ==
    B2I(is_eof) * 4 + B2I(is_valid) * 2 + B2I(is_header)

\* A Python integer that may pass 2^31 is kept as two base-65536 digits
\* <<hi, lo>> with 0 <= lo < 65536, standing for hi * 65536 + lo.
Wide(hi, lo) == <<hi + PyFloorDiv(lo, 65536), PyMod(lo, 65536)>>

\* return (ant << 16) + (chan << 0)
format_ant_chan(ant, chan) == Wide(ant, chan)

\* ip2int: the dotted quad, parsed to its four integers, shifted and summed.
ip2int(octets) == Wide(octets[1] * 256 + octets[2], octets[3] * 256 + octets[4])

\* chan = ant_chan & 0xffff; ant = (ant_chan >> 16) & 0xffff; return ant, chan
deformat_ant_chan(ant_chan) == [ant |-> PyMod(ant_chan[1], 65536), chan |-> ant_chan[2]]

\* is_hdr, is_vld, is_eof = bits 0, 1, 2 of f, each as a bool
deformat_flags(f) ==
    [is_hdr |-> PyMod(f, 2) = 1,
     is_vld |-> PyMod(PyFloorDiv(f, 2), 2) = 1,
     is_eof |-> PyMod(PyFloorDiv(f, 4), 2) = 1]

\* struct.pack accepts an unsigned field only within its width.
FitsU32(v) == v[1] >= 0 /\ v[1] <= 65535
FitsU16(v) == v >= 0 /\ v <= 65535
FitsU8(v) == v >= 0 /\ v <= 255

\* A Python list of length n is a function on 0..n-1; an index i is valid in
\* [-n, n) and a negative one counts from the end.
IdxOk(i, n) == i >= 0 - n /\ i < n
Norm(i, n) == IF i < 0 THEN i + n ELSE i
Zeros(n) == [x \in 0..(n - 1) |-> 0]
WideZeros(n) == [x \in 0..(n - 1) |-> Wide(0, 0)]
AllFitU32(arr, n) == \A x \in 0..(n - 1) : FitsU32(arr[x])
AllFitU16(arr, n) == \A x \in 0..(n - 1) : FitsU16(arr[x])
AllFitU8(arr, n) == \A x \in 0..(n - 1) : FitsU8(arr[x])

\* Arrays that start with every position flagged valid.
BlankImageValid(n) ==
    [err |-> NoErr, ant_chans |-> WideZeros(n), ips |-> WideZeros(n), ports |-> Zeros(n),
     flags |-> [x \in 0..(n - 1) |-> 2], w_bound |-> FALSE, w |-> 0]

\* The arrays before the loop (lines 293-296); w is the payload loop variable,
\* unbound until a payload loop has run at least once.
BlankImage(n) ==
    [err |-> NoErr, ant_chans |-> WideZeros(n), ips |-> WideZeros(n), ports |-> Zeros(n),
     flags |-> Zeros(n), w_bound |-> FALSE, w |-> 0]

\* flags after "for w in packet_payloads[i]: flags[w] = ..." (lines 301-302)
PayloadFlags(flags, n, start, payload) ==
    [x \in 0..(n - 1) |->
        IF x \in RangeSet(payload)
        THEN format_flags(x = start, TRUE, FALSE)
        ELSE IF (x - n) \in RangeSet(payload)
        THEN format_flags((x - n) = start, TRUE, FALSE)
        ELSE flags[x]]

\* One iteration of "for i in range(n_packets)" (lines 299-307) on the image im.
EncodeSlot(im, n, start, payload, chan, ant, ip, port) ==
    IF im.err.type # "" THEN im
    ELSE IF ~IdxOk(start, n)
    THEN [im EXCEPT !.err = Err("IndexError", 299)]
    ELSE IF \E x \in RangeSet(payload) : ~IdxOk(x, n)
    THEN [im EXCEPT !.err = Err("IndexError", 302)]
    ELSE
      LET nonempty == RangeLen(payload) > 0
          w  == IF nonempty THEN payload[2] - 1 ELSE im.w
          f1 == [im.flags EXCEPT ![Norm(start, n)] = format_flags(TRUE, TRUE, FALSE)]
          f2 == PayloadFlags(f1, n, start, payload)
      IN  IF ~nonempty /\ ~im.w_bound
          THEN [im EXCEPT !.err = Err("UnboundLocalError", 304)]
          ELSE [err |-> NoErr,
                ant_chans |-> [im.ant_chans EXCEPT ![Norm(start, n)] =
                                   format_ant_chan(ant, chan)],
                ips   |-> [im.ips EXCEPT ![Norm(w, n)] = ip2int(ip)],
                ports |-> [im.ports EXCEPT ![Norm(w, n)] = port],
                flags |-> [f2 EXCEPT ![Norm(w, n)] = format_flags(FALSE, TRUE, TRUE)],
                w_bound |-> TRUE, w |-> w]

\* The loop over the packets, first to last.
RECURSIVE EncodeSlots(_, _, _, _, _, _, _, _, _)
EncodeSlots(im, n, i, packet_starts, packet_payloads, channel_indices, ant_indices, dest_ips, dest_ports) ==
    IF i > Len(packet_starts) THEN im
    ELSE Only({ IF nx.err.type # "" THEN nx
                ELSE EncodeSlots(nx, n, i + 1, packet_starts, packet_payloads,
                                 channel_indices, ant_indices, dest_ips, dest_ports) :
                nx \in {EncodeSlot(im, n, packet_starts[i], packet_payloads[i],
                                   channel_indices[i], ant_indices[i], dest_ips[i],
                                   dest_ports[i])} })

\* The registers of the packetizer block as last written; a region never
\* written holds the empty sequence.
BlankHw ==
    [ant_chan |-> <<>>, ips |-> <<>>, ports |-> <<>>, flags |-> <<>>,
     n_chans |-> <<>>, n_pols |-> <<>>]

\* Writes that patch the flags region: a position the new image leaves at 0
\* keeps the flags it had.
WriteRegionsPatching(h, im, n, n_pkt_chans, n_pkt_antpols) ==
    IF ~AllFitU32(im.ant_chans, n)
    THEN [err |-> Err("struct.error", 309), writes |-> <<>>, hw |-> h]
    ELSE IF ~AllFitU32(im.ips, n)
    THEN [err |-> Err("struct.error", 310), writes |-> <<"ant_chan">>,
          hw |-> [h EXCEPT !.ant_chan = im.ant_chans]]
    ELSE IF ~AllFitU16(im.ports, n)
    THEN [err |-> Err("struct.error", 311), writes |-> <<"ant_chan", "ips">>,
          hw |-> [h EXCEPT !.ant_chan = im.ant_chans, !.ips = im.ips]]
    ELSE IF ~AllFitU8(im.flags, n)
    THEN [err |-> Err("struct.error", 312), writes |-> <<"ant_chan", "ips", "ports">>,
          hw |-> [h EXCEPT !.ant_chan = im.ant_chans, !.ips = im.ips,
                           !.ports = im.ports]]
    ELSE [err |-> NoErr,
          writes |-> <<"ant_chan", "ips", "ports", "flags", "n_chans", "n_pols">>,
          hw |-> [ant_chan |-> im.ant_chans, ips |-> im.ips, ports |-> im.ports,
                  flags |-> IF h.flags = <<>> THEN im.flags
                            ELSE [x \in 0..(n - 1) |->
                                     IF im.flags[x] = 0 THEN h.flags[x] ELSE im.flags[x]],
                  n_chans |-> <<n_pkt_chans>>, n_pols |-> <<n_pkt_antpols>>]]

\* The six writes of lines 309-314 in order: each struct.pack runs before its
\* write, so a value that does not fit stops the call between two writes.
\* Returns the exception, the regions written by this call in order, and the
\* registers afterwards.
WriteRegions(h, im, n, n_pkt_chans, n_pkt_antpols) ==
    IF ~AllFitU32(im.ant_chans, n)
    THEN [err |-> Err("struct.error", 309), writes |-> <<>>, hw |-> h]
    ELSE IF ~AllFitU32(im.ips, n)
    THEN [err |-> Err("struct.error", 310), writes |-> <<"ant_chan">>,
          hw |-> [h EXCEPT !.ant_chan = im.ant_chans]]
    ELSE IF ~AllFitU16(im.ports, n)
    THEN [err |-> Err("struct.error", 311), writes |-> <<"ant_chan", "ips">>,
          hw |-> [h EXCEPT !.ant_chan = im.ant_chans, !.ips = im.ips]]
    ELSE IF ~AllFitU8(im.flags, n)
    THEN [err |-> Err("struct.error", 312), writes |-> <<"ant_chan", "ips", "ports">>,
          hw |-> [h EXCEPT !.ant_chan = im.ant_chans, !.ips = im.ips,
                           !.ports = im.ports]]
    ELSE [err |-> NoErr,
          writes |-> <<"ant_chan", "ips", "ports", "flags", "n_chans", "n_pols">>,
          hw |-> [ant_chan |-> im.ant_chans, ips |-> im.ips, ports |-> im.ports,
                  flags |-> im.flags, n_chans |-> <<n_pkt_chans>>,
                  n_pols |-> <<n_pkt_antpols>>]]

\* Packetizer.write_config on the registers h.
write_config(p, h, packet_starts, packet_payloads, channel_indices, ant_indices, dest_ips, dest_ports, n_pkt_antpols, n_pkt_chans) ==
    LET n_packets == Len(packet_starts)
    IN  IF Len(packet_payloads) # n_packets THEN
            [err |-> Err("AssertionError", 287), writes |-> <<>>, hw |-> h]
        ELSE IF Len(channel_indices) # n_packets THEN
            [err |-> Err("AssertionError", 288), writes |-> <<>>, hw |-> h]
        ELSE IF Len(ant_indices) # n_packets THEN
            [err |-> Err("AssertionError", 289), writes |-> <<>>, hw |-> h]
        ELSE IF Len(dest_ips) # n_packets THEN
            [err |-> Err("AssertionError", 290), writes |-> <<>>, hw |-> h]
        ELSE IF Len(dest_ports) # n_packets THEN
            [err |-> Err("AssertionError", 291), writes |-> <<>>, hw |-> h]
        ELSE
          Only({ IF im.err.type # ""
                 THEN [err |-> im.err, writes |-> <<>>, hw |-> h]
                 ELSE WriteRegions(h, im, p.n_total_blocks, n_pkt_chans, n_pkt_antpols) :
                 im \in {EncodeSlots(BlankImage(p.n_total_blocks), p.n_total_blocks, 1,
                                     packet_starts, packet_payloads, channel_indices,
                                     ant_indices, dest_ips, dest_ports)} })

-----------------------------------------------------------------------------
(* SnapFengine._configure_output *)

MAX_OUTPUT_OCCUPANCY == Rat(9, 10)

\* The streams and block size the F-engine fixes for its packetizer.
FENG_N_SIGNALS == 16
FENG_N_WORDS_PER_BLOCK == 4

NoFengine == [made |-> FALSE, n_inputs |-> 0, n_chans |-> 0, fs_mhz |-> 0]

\* self.packetizer as _initialize_blocks builds it
FengPacketizer(n_inputs, n_chans, fs_mhz) ==
    PacketizerInit(n_chans, FENG_N_SIGNALS, n_inputs, FENG_N_WORDS_PER_BLOCK, fs_mhz)

\* The packets demanded by the destinations, in the order of the two nested
\* loops: dest["nchan"] // nchan_packet packets for each destination.
RECURSIVE FlatPackets(_, _, _)
FlatPackets(dests, nchan_packet, i) ==
    IF i > Len(dests) THEN <<>>
    ELSE LET d    == dests[i]
             npkt == PyFloorDiv(d.nchan, nchan_packet)
             pkts == IF npkt <= 0 THEN <<>>
                     ELSE [q \in 1..npkt |->
                              [ip |-> d.ip, port |-> d.port,
                               first_chan |-> d.start_chan + (q - 1) * nchan_packet]]
         IN  pkts \o FlatPackets(dests, nchan_packet, i + 1)

\* An assignment that gives every index of the slot the slot's first channel.
PlaceChannelNoOffset(chan_map, n, chans, first_chan) ==
    [x \in 0..(n - 1) |->
        IF x \in RangeSet(chans) THEN first_chan
        ELSE IF (x - n) \in RangeSet(chans) THEN first_chan
        ELSE chan_map[x]]

\* chan_map[chans[pn]] = np.arange(first_chan, first_chan + nchan_packet)
PlaceChannel(chan_map, n, chans, first_chan) ==
    [x \in 0..(n - 1) |->
        IF x \in RangeSet(chans) THEN first_chan + (x - chans[1])
        ELSE IF (x - n) \in RangeSet(chans) THEN first_chan + (x - n - chans[1])
        ELSE chan_map[x]]

RECURSIVE PlaceChannels(_, _, _, _, _)
PlaceChannels(chan_map, n, channel_indices, flat, k) ==
    IF k > Len(flat) THEN chan_map
    ELSE PlaceChannels(PlaceChannel(chan_map, n, channel_indices[k], flat[k].first_chan),
                       n, channel_indices, flat, k + 1)

\* An outcome that has the reorder map set whether or not the call got there.
OutputResultAlwaysSet(err, writes, h, reorder_set, chan_map) ==
    [err |-> err, writes |-> writes, hw |-> h, reorder_set |-> TRUE, chan_map |-> chan_map]

\* The outcome of one call on the registers h: the exception (if any), the
\* packetizer regions the call wrote, in order, the registers afterwards,
\* and whether the reorder map was set, and to what.
OutputResult(err, writes, h, reorder_set, chan_map) ==
    [err |-> err, writes |-> writes, hw |-> h, reorder_set |-> reorder_set,
     chan_map |-> chan_map]

\* A validation that looks at the first destination only.
DestsRejectedFirstOnly(dests, nchan_packet) ==
    IF Len(dests) = 0 THEN NoErr
    ELSE IF nchan_packet = 0 THEN Err("ZeroDivisionError", 357)
    ELSE IF PyMod(dests[1].nchan, nchan_packet) # 0 THEN Err("RuntimeError", 359)
    ELSE NoErr

\* The first dest of the validation loop stops the call when nchan_packet is 0
\* (ZeroDivisionError from %), else the first dest that is not a multiple.
DestsRejected(dests, nchan_packet) ==
    IF Len(dests) = 0 THEN NoErr
    ELSE IF nchan_packet = 0 THEN Err("ZeroDivisionError", 357)
    ELSE IF \E i \in 1..Len(dests) : PyMod(dests[i].nchan, nchan_packet) # 0
    THEN Err("RuntimeError", 359)
    ELSE NoErr

\* A slot check that refuses the last slot of the plan as well.
TooManyPacketsOffByOne(pn, max_packets) == pn >= max_packets

\* "if pn >= max_packets: raise" runs before each packet is placed, with pn the
\* packets placed so far: it fires when a packet beyond the last slot is asked
\* for, that is when the pn packets demanded in all outnumber the slots.
TooManyPackets(pn, max_packets) == pn > max_packets

\* Lines 368-404, once the plan info and the demanded packets flat are known.
PlaceAndWrite(f, p, h, info, flat, nchan_packet, feng_id) ==
    LET max_packets == Len(info.packet_starts)
        pn          == Len(flat)
    IN  IF \E k \in 1..pn : k <= max_packets /\
               \E x \in RangeSet(info.channel_indices[k]) : ~IdxOk(x, f.n_chans)
        THEN OutputResult(Err("IndexError", 384), <<>>, h, FALSE, <<>>)
        ELSE IF TooManyPackets(pn, max_packets)
        THEN OutputResult(Err("RuntimeError", 382), <<>>, h, FALSE, <<>>)
        ELSE
          Only({ IF wc.err.type # ""
                 THEN OutputResult(wc.err, wc.writes, wc.hw, FALSE, <<>>)
                 ELSE OutputResult(NoErr, wc.writes, wc.hw, TRUE,
                                   PlaceChannels(Zeros(f.n_chans), f.n_chans,
                                                 info.channel_indices, flat, 1)) :
                 wc \in {write_config(p, h,
                            SubSeq(info.packet_starts, 1, pn),
                            SubSeq(info.packet_payloads, 1, pn),
                            [k \in 1..pn |-> flat[k].first_chan],
                            [k \in 1..pn |-> feng_id],
                            [k \in 1..pn |-> flat[k].ip],
                            [k \in 1..pn |-> flat[k].port],
                            f.n_inputs, nchan_packet)} })

\* A call that goes on with whatever the planner left when it failed.
ConfigureOutputDespitePlanError(f, p, h, dests, nchan_packet, feng_id) ==
    IF DestsRejected(dests, nchan_packet).type # ""
    THEN OutputResult(DestsRejected(dests, nchan_packet), <<>>, h, FALSE, <<>>)
    ELSE
      Only({ PlaceAndWrite(f, p, h, info, flat, nchan_packet, feng_id) :
             info \in {get_packet_info(p, nchan_packet, MAX_OUTPUT_OCCUPANCY)},
             flat \in {FlatPackets(dests, nchan_packet, 1)} })

configure_output(f, p, h, dests, nchan_packet, feng_id) ==
    IF DestsRejected(dests, nchan_packet).type # ""
    THEN OutputResult(DestsRejected(dests, nchan_packet), <<>>, h, FALSE, <<>>)
    ELSE
      Only({ IF info.err.type # ""
             THEN OutputResult(Err("RuntimeError", 366), <<>>, h, FALSE, <<>>)
             ELSE PlaceAndWrite(f, p, h, info, flat, nchan_packet, feng_id) :
             info \in {get_packet_info(p, nchan_packet, MAX_OUTPUT_OCCUPANCY)},
             flat \in {FlatPackets(dests, nchan_packet, 1)} })

-----------------------------------------------------------------------------
(* Inputs *)

NChansSet == {250, 256}
NSignalsSet == {4, 12, 16, 64}
NSignalsRealSet == {8, 12}
NWordsPerBlockSet == {3, 4, 8}
SampleRateMhzSet == {125, 200, 250}
PktChansSet == {0 - 64, 0, 3, 4, 8, 64, 128, 136, 512}
OccupationSet == {Rat(0 - 1, 2), Rat(0, 1), Rat(1, 100), Rat(1, 2), Rat(9, 10),
                  Rat(19, 20), Rat(1, 1)}

NoCall == [op |-> "none", n_pkt_chans |-> 0, occupation |-> RInt(0)]

NoResult == Result(NoErr, EmptyPlan, 0, 0, 0, RInt(0), FALSE)

\* F-engines: twelve inputs, 256 channels, three ADC clocks.
FengInputsSet == {12}
FengChansSet == {256}
FengRateMhzSet == {125, 200, 250}

Dest(ip, port, start_chan, nchan) ==
    [ip |-> ip, port |-> port, start_chan |-> start_chan, nchan |-> nchan]

\* Two good destinations; a port and an IP octet past their fields; a channel
\* count that is no multiple of the packet sizes; more channels than fit.
DestSet ==
    { Dest(<<10, 41, 0, 1>>, 10000, 0, 64),
      Dest(<<10, 41, 0, 2>>, 10001, 64, 128),
      Dest(<<10, 41, 0, 3>>, 70000, 0, 64),
      Dest(<<300, 41, 0, 4>>, 10000, 0, 64),
      Dest(<<10, 41, 0, 5>>, 10000, 0, 100),
      Dest(<<10, 41, 0, 6>>, 10000, 0, 512) }

MaxDests == 2

DestsSet == UNION {[1..n -> DestSet] : n \in 0..MaxDests}
NchanPacketSet == {0 - 64, 0, 32, 64, 256}
FengIdSet == {0, 3}

NoOutput ==
    [op |-> "none", dests |-> <<>>, nchan_packet |-> 0, feng_id |-> 0,
     err |-> NoErr, writes |-> <<>>]

NoReorder == [set |-> FALSE, chan_map |-> <<>>]

\* A small packetizer for direct write_config calls: 16 channels of 16 streams
\* in blocks of 4 words, an image of 8 positions.
WrChansSet == {16}
WrSignalsSet == {16}
WrSignalsRealSet == {12}
WrWordsPerBlockSet == {4}
WrSampleRateMhzSet == {200}

\* One packet of a write_config call: element i of each of its six lists.
Slot(start, payload, chan, ant, ip, port) ==
    [start |-> start, payload |-> payload, chan |-> chan, ant |-> ant, ip |-> ip,
     port |-> port]

\* Payloads of one block and of several; slots that overlap others; an empty
\* payload; a payload beyond the image; a port and an IP octet past their
\* fields; a header channel past 16 bits.
SlotSet ==
    { Slot(0, <<0, 1>>, 0, 3, <<10, 41, 0, 1>>, 10000),
      Slot(0, <<0, 3>>, 0, 3, <<10, 41, 0, 1>>, 10000),
      Slot(4, <<4, 7>>, 64, 3, <<10, 41, 0, 2>>, 10001),
      Slot(2, <<2, 5>>, 32, 3, <<10, 41, 0, 2>>, 10001),
      Slot(5, <<5, 5>>, 8, 3, <<10, 41, 0, 1>>, 10000),
      Slot(6, <<6, 9>>, 0, 3, <<10, 41, 0, 1>>, 10000),
      Slot(4, <<4, 6>>, 0, 3, <<10, 41, 0, 1>>, 70000),
      Slot(4, <<4, 6>>, 70000, 3, <<10, 41, 0, 1>>, 10000),
      Slot(4, <<4, 6>>, 0, 3, <<300, 41, 0, 4>>, 10000) }

NPacketsSet == {0, 1, 2}
SlotsSet == UNION {[1..n -> SlotSet] : n \in NPacketsSet}
WrPktAntpolsSet == {12}
WrPktChansSet == {2}

MaxWrites == 2

\* The last write_config call made directly: how many calls so far, its
\* arguments and outcome, and the flags region as it was before the call.
NoWrite ==
    [n |-> 0, slots |-> <<>>, n_pkt_antpols |-> 0, n_pkt_chans |-> 0, err |-> NoErr,
     writes |-> <<>>, flags_before |-> <<>>]

\* An optional argument: <<>> for None, <<v>> for the value v.
None == <<>>
Some(v) == <<v>>

\* No configure call yet. pfb_ctrl is the shift field of the PFB ctrl register.
NoConfigure ==
    [pc |-> "idle", args |-> <<>>, err |-> NoErr, log |-> <<>>, pfb_ctrl |-> 0]

\* No Eq block yet.
NoEq ==
    [ctor |-> "none", n_inputs |-> 0, n_parallel_inputs |-> 0, n_serial_inputs |-> 0,
     n_coeffs |-> 0, stream_size |-> 0, op |-> "none", inputid |-> 0, err |-> NoErr,
     accesses |-> {}]

-----------------------------------------------------------------------------
(* State machine of the Packetizer API *)

vars == <<pkz, ret, feng, hw, reorder, out, wr, cfg, eqb>>

Init ==
    /\ pkz = NoPacketizer
    /\ ret = [call |-> NoCall, res |-> NoResult]
    /\ feng = NoFengine
    /\ hw = BlankHw
    /\ reorder = NoReorder
    /\ out = NoOutput
    /\ wr = NoWrite
    /\ cfg = NoConfigure
    /\ eqb = NoEq

\* Packetizer(host, name, n_chans, n_signals, n_signals_real, n_words_per_block, sample_rate_mhz)
New ==
    /\ pkz.ctor = "none"
    /\ \E nc \in NChansSet, ns \in NSignalsSet, nr \in NSignalsRealSet,
          wb \in NWordsPerBlockSet, sr \in SampleRateMhzSet :
          pkz' = PacketizerInit(nc, ns, nr, wb, sr)
    /\ UNCHANGED <<ret, feng, hw, reorder, out, wr, cfg, eqb>>

\* packetizer.get_packet_info(n_pkt_chans, occupation)
GetPacketInfo ==
    /\ pkz.ctor = "ok"
    /\ ret.call.op = "none"
    /\ \E c \in PktChansSet, o \in OccupationSet :
          ret' = [call |-> [op |-> "get_packet_info", n_pkt_chans |-> c, occupation |-> o],
                  res  |-> get_packet_info(pkz, c, o)]
    /\ UNCHANGED <<pkz, feng, hw, reorder, out, wr, cfg, eqb>>

Next == New \/ GetPacketInfo

Spec == Init /\ [][Next]_vars

-----------------------------------------------------------------------------
(* State machine of the F-engine output configuration *)

\* SnapFengine(host, n_inputs=, n_chans=, fs_hz=): _initialize_blocks builds
\* the packetizer; its registers are as the firmware leaves them.
SnapFengineInit ==
    /\ ~feng.made
    /\ pkz.ctor = "none"
    /\ \E ni \in FengInputsSet, nc \in FengChansSet, fs \in FengRateMhzSet :
          /\ feng' = [made |-> TRUE, n_inputs |-> ni, n_chans |-> nc, fs_mhz |-> fs]
          /\ pkz' = FengPacketizer(ni, nc, fs)
    /\ UNCHANGED <<ret, hw, reorder, out, wr, cfg, eqb>>

\* feng._configure_output(dests, nchan_packet, feng_id)
ConfigureOutput ==
    /\ feng.made
    /\ pkz.ctor = "ok"
    /\ out.op = "none"
    /\ \E dests \in DestsSet, c \in NchanPacketSet, id \in FengIdSet :
          \E r \in {configure_output(feng, pkz, hw, dests, c, id)} :
              /\ out' = [op |-> "_configure_output", dests |-> dests,
                         nchan_packet |-> c, feng_id |-> id,
                         err |-> r.err, writes |-> r.writes]
              /\ hw' = r.hw
              /\ reorder' = [set |-> r.reorder_set, chan_map |-> r.chan_map]
    /\ UNCHANGED <<pkz, ret, feng, wr, cfg, eqb>>

NextOut == SnapFengineInit \/ ConfigureOutput

SpecOut == Init /\ [][NextOut]_vars

-----------------------------------------------------------------------------
(* State machine of direct Packetizer.write_config calls *)

NewSmall ==
    /\ pkz.ctor = "none"
    /\ \E nc \in WrChansSet, ns \in WrSignalsSet, nr \in WrSignalsRealSet,
          wb \in WrWordsPerBlockSet, sr \in WrSampleRateMhzSet :
          pkz' = PacketizerInit(nc, ns, nr, wb, sr)
    /\ UNCHANGED <<ret, feng, hw, reorder, out, wr, cfg, eqb>>

\* packetizer.write_config(packet_starts, packet_payloads, channel_indices,
\*                         ant_indices, dest_ips, dest_ports, n_pkt_antpols, n_pkt_chans)
WriteConfig ==
    /\ pkz.ctor = "ok"
    /\ wr.n < MaxWrites
    /\ \E slots \in SlotsSet, np \in WrPktAntpolsSet, nc \in WrPktChansSet :
          \E r \in {write_config(pkz, hw,
                                 [k \in 1..Len(slots) |-> slots[k].start],
                                 [k \in 1..Len(slots) |-> slots[k].payload],
                                 [k \in 1..Len(slots) |-> slots[k].chan],
                                 [k \in 1..Len(slots) |-> slots[k].ant],
                                 [k \in 1..Len(slots) |-> slots[k].ip],
                                 [k \in 1..Len(slots) |-> slots[k].port],
                                 np, nc)} :
              /\ wr' = [n |-> wr.n + 1, slots |-> slots, n_pkt_antpols |-> np,
                        n_pkt_chans |-> nc, err |-> r.err, writes |-> r.writes,
                        flags_before |-> hw.flags]
              /\ hw' = r.hw
    /\ UNCHANGED <<pkz, ret, feng, reorder, out, cfg, eqb>>

NextWr == NewSmall \/ WriteConfig

SpecWr == Init /\ [][NextWr]_vars

-----------------------------------------------------------------------------
(* Properties of Packetizer.get_packet_info and Packetizer.__init__ *)

Called == ret.call.op = "get_packet_info"
Returned == Called /\ ret.res.err.type = ""
Raised == Called /\ ret.res.err.type # ""
NoPlanReturned ==
    /\ ret.res.packet_starts = <<>>
    /\ ret.res.packet_payloads = <<>>
    /\ ret.res.channel_indices = <<>>

\* The quantities of the request, recomputed from the object and the arguments.
ReqChans == ret.call.n_pkt_chans
ReqOccupation == ret.call.occupation
ReqPayloadBytes == ReqChans * pkz.n_words_per_chan * word_width
ReqBudgetChans ==
    RFloor(RMul(RDiv(RMul(ReqOccupation, RInt(line_rate_gbps)), full_data_rate_gbps(pkz)),
                RInt(pkz.n_chans)))
ReqPackets == PyFloorDiv(ReqBudgetChans, ReqChans)
ReqSentChans == ReqPackets * ReqChans
ReqThroughput == RMul(Rat(ReqSentChans, pkz.n_chans), full_data_rate_gbps(pkz))
ReqOccupancy ==
    RDiv(RMul(ReqThroughput, Rat(ReqPayloadBytes + PROTOCOL_OVERHEAD_BYTES, ReqPayloadBytes)),
         RInt(line_rate_gbps))
ReqIsMultiple == PyMod(ReqChans, pkz.n_chans_per_block) = 0
ReqPassesArgumentChecks ==
    /\ ReqIsMultiple
    /\ RLt(ReqOccupation, RInt(1))
    /\ ReqPayloadBytes <= MAX_PAYLOAD_BYTES

NPackets == Len(ret.res.packet_starts)
LastPayloadPosition(i) == ret.res.packet_payloads[i][2] - 1

\* C1: in every returned plan the last payload position of slot i is strictly
\* less than the start position of slot i+1, for every consecutive pair.
C1_SlotsOrdered ==
    Returned =>
        \A i \in 1..(NPackets - 1) :
            LastPayloadPosition(i) < ret.res.packet_starts[i + 1]

\* C3: whenever the link occupancy of the request (sent channels / n_chans *
\* full rate * (payload + 62) / payload / line rate) is at least 1 the call
\* raises and returns no plan -- the RuntimeError of line 132 when the argument
\* checks before it pass -- and every returned plan has occupancy below 1.
C3_OccupancyRejected ==
    (Called /\ ReqChans # 0) =>
        /\ RGe(ReqOccupancy, RInt(1)) => (Raised /\ NoPlanReturned)
        /\ (RGe(ReqOccupancy, RInt(1)) /\ ReqPassesArgumentChecks)
               => ret.res.err = Err("RuntimeError", 132)
        /\ Returned => RLt(ReqOccupancy, RInt(1))

C3_Witness ==
    /\ Called
    /\ ReqChans > 0
    /\ ReqPassesArgumentChecks
    /\ RGe(ReqOccupancy, RInt(1))
    /\ ret.res.err = Err("RuntimeError", 132)

\* C4: a request on a constructed grid that passes the capacity validation
\* (a positive multiple of n_chans_per_block, occupation inside (0, 1), payload
\* at most 8192 bytes, at least one packet in the budget, occupancy below 1)
\* returns a plan: no layout assertion fails.
C4_ValidatedRequestIsPlanned ==
    ( /\ Called
      /\ ReqChans > 0
      /\ ReqPassesArgumentChecks
      /\ RGt(ReqOccupation, RInt(0))
      /\ ReqPackets >= 1
      /\ RLt(ReqOccupancy, RInt(1)) )
    => Returned

\* C5: the number of planned packets is floor(floor(occupation * line_rate /
\* full_rate * n_chans) / channels_per_packet), and the payload-only throughput
\* sent_channels / n_chans * full_rate of a returned plan is at most
\* occupation * line_rate.
C5_PacketCount ==
    Returned =>
        /\ NPackets = ReqPackets
        /\ RLe(ReqThroughput, RMul(ReqOccupation, RInt(line_rate_gbps)))

\* C6: a request whose payload channels_per_packet * n_words_per_chan *
\* word_width is above 8192 bytes is rejected by one of the argument checks
\* (lines 98-102), before any plan is computed; a payload of exactly 8192
\* bytes is not rejected by the size check.
C6_PayloadSizeLimit ==
    Called =>
        /\ ReqPayloadBytes > 8192 =>
              /\ Raised
              /\ ret.res.err.type = "AssertionError"
              /\ ret.res.err.line \in {98, 100, 102}
              /\ NoPlanReturned
        /\ (ReqPayloadBytes > 8192 /\ ReqIsMultiple /\ RLt(ReqOccupation, RInt(1)))
              => ret.res.err = Err("AssertionError", 102)
        /\ ReqPayloadBytes = 8192 => ret.res.err # Err("AssertionError", 102)

C6_Witness ==
    /\ Called
    /\ ReqPayloadBytes > 8192
    /\ ret.res.err = Err("AssertionError", 102)

\* C7: a request whose channels_per_packet is not a positive multiple of
\* n_chans_per_block, or whose occupation is not strictly inside (0, 1), is
\* rejected with an error and never returns a plan.
C7_BadArgumentsRejected ==
    ( /\ Called
      /\ \/ ReqChans <= 0
         \/ ~ReqIsMultiple
         \/ RLe(ReqOccupation, RInt(0))
         \/ RGe(ReqOccupation, RInt(1)) )
    => Raised

\* C8: construction fails whenever n_words_per_block is not an exact multiple
\* of n_words_per_chan = sample_width * n_signals // word_width, and every
\* constructed Packetizer has n_chans_per_block * n_words_per_chan =
\* n_words_per_block.
C8_ConstructionInvariant ==
    pkz.ctor # "none" =>
        LET wpc == PyFloorDiv(sample_width * pkz.n_signals, word_width)
        IN  /\ (wpc = 0 \/ wpc * PyFloorDiv(pkz.n_words_per_block, wpc)
                              # pkz.n_words_per_block)
                   => pkz.ctor # "ok"
            /\ pkz.ctor = "ok" =>
                   /\ pkz.n_words_per_chan = wpc
                   /\ pkz.n_chans_per_block * pkz.n_words_per_chan
                          = pkz.n_words_per_block

C8_Witness ==
    /\ pkz.ctor = "AssertionError"
    /\ pkz.n_words_per_chan > 0
    /\ PyMod(pkz.n_words_per_block, pkz.n_words_per_chan) # 0

\* The positions covered by the payload ranges of the returned plan.
PayloadUnion == UNION {RangeSet(ret.res.packet_payloads[i]) : i \in 1..NPackets}

C10_PlanFitsImage ==
    Returned =>
        /\ NPackets * (ReqChans + ret.res.spare_chans_per_packet) * pkz.n_words_per_chan
               <= pkz.n_total_words
        /\ \A i \in 1..NPackets :
              \A x \in RangeSet(ret.res.packet_payloads[i]) :
                  x >= 0 /\ x < pkz.n_total_blocks

C10_Witness ==
    /\ Returned
    /\ NPackets >= 2
    /\ ret.res.spare_chans_per_packet > 0
    /\ RangeLen(ret.res.packet_payloads[NPackets]) > 0

\* C11: in every returned plan each slot's channel range has exactly
\* channels_per_packet channels, begins at the slot's payload start word
\* divided by n_words_per_chan, lies inside [0, n_chans), the channel ranges of
\* different slots are disjoint, and n_packets * channels_per_packet <= n_chans.
C11_ChannelRanges ==
    Returned =>
        /\ \A i \in 1..NPackets :
              /\ RangeLen(ret.res.channel_indices[i]) = ReqChans
              /\ ret.res.channel_indices[i][1] =
                     PyFloorDiv(ret.res.packet_payloads[i][1] * pkz.n_words_per_block,
                                pkz.n_words_per_chan)
              /\ \A c \in RangeSet(ret.res.channel_indices[i]) : c >= 0 /\ c < pkz.n_chans
        /\ \A i, j \in 1..NPackets :
              i # j => RangeSet(ret.res.channel_indices[i]) \cap
                       RangeSet(ret.res.channel_indices[j]) = {}
        /\ NPackets * ReqChans <= pkz.n_chans

-----------------------------------------------------------------------------
(* Properties of SnapFengine._configure_output *)

Configured == out.op = "_configure_output"

\* C2: whenever _configure_output raises, none of the regions ant_chan, ips,
\* ports, flags, n_chans, n_pols has been written and the channel-reorder map
\* has not been set.
C2_RejectedBeforeAnyWrite ==
    (Configured /\ out.err.type # "") =>
        /\ out.writes = <<>>
        /\ hw = BlankHw
        /\ ~reorder.set

\* C12: a destination list in which some destination's nchan is not a multiple
\* of nchan_packet makes _configure_output raise in its validation loop (lines
\* 356-359), before the plan is asked for, with no region written and the
\* reorder map not set, whichever place the offending destination has.
C12_NotMultipleRejected ==
    (/\ Configured
     /\ \E i \in 1..Len(out.dests) :
           out.nchan_packet = 0 \/ PyMod(out.dests[i].nchan, out.nchan_packet) # 0)
    => /\ out.err \in {Err("RuntimeError", 359), Err("ZeroDivisionError", 357)}
       /\ out.writes = <<>>
       /\ hw = BlankHw
       /\ ~reorder.set

C12_Witness ==
    /\ Configured
    /\ Len(out.dests) = 2
    /\ out.nchan_packet > 0
    /\ PyMod(out.dests[1].nchan, out.nchan_packet) = 0
    /\ PyMod(out.dests[2].nchan, out.nchan_packet) # 0
    /\ out.err = Err("RuntimeError", 359)

Accepted == Configured /\ out.err.type = ""

\* The plan of the call, recomputed from the packetizer and the arguments.
OutPlan == get_packet_info(pkz, out.nchan_packet, MAX_OUTPUT_OCCUPANCY)

\* The packets demanded by the destinations before the i-th:
\* the sum of nchan / nchan_packet over dests[1..i-1].
RECURSIVE DemandBefore(_)
DemandBefore(i) ==
    IF i <= 1 THEN 0
    ELSE DemandBefore(i - 1) + PyFloorDiv(out.dests[i - 1].nchan, out.nchan_packet)

TotalDemand == DemandBefore(Len(out.dests) + 1)

\* The planner slots the written image uses: those whose start is flagged.
UsedSlots(plan) == {s \in 1..Len(plan.packet_starts) : hw.flags[plan.packet_starts[s]] # 0}

\* C13: an accepted call walks the destinations in list order; destination i
\* gets the nchan / nchan_packet planner slots that follow those of the
\* destinations before it, its k-th slot carries its ip and port (at the last
\* payload position) and the header channel start_chan + k * nchan_packet (at
\* the start), and exactly sum(nchan / nchan_packet) slots are used.
C13_SlotsInListOrder ==
    Accepted =>
        \A plan \in {OutPlan} :
            /\ \A i \in 1..Len(out.dests) :
                  \A k \in 0..(PyFloorDiv(out.dests[i].nchan, out.nchan_packet) - 1) :
                      \A s \in {DemandBefore(i) + k + 1} :
                          /\ s \in 1..Len(plan.packet_starts)
                          /\ hw.ant_chan[plan.packet_starts[s]] =
                                 format_ant_chan(out.feng_id,
                                                 out.dests[i].start_chan + k * out.nchan_packet)
                          /\ hw.ips[plan.packet_payloads[s][2] - 1] = ip2int(out.dests[i].ip)
                          /\ hw.ports[plan.packet_payloads[s][2] - 1] = out.dests[i].port
            /\ Cardinality(UsedSlots(plan)) = TotalDemand

\* Every destination's nchan is a multiple of a non-zero nchan_packet.
DestsAreMultiples ==
    \A i \in 1..Len(out.dests) :
        out.nchan_packet # 0 /\ PyMod(out.dests[i].nchan, out.nchan_packet) = 0

\* C14: once the destinations are validated and get_packet_info has produced
\* its slots, _configure_output raises the RuntimeError of line 382 exactly when
\* the destinations demand more packets, sum(nchan / nchan_packet), than there
\* are slots, and then no region is written and the reorder map is not set.
C14_DemandBeyondSlots ==
    (Configured /\ DestsAreMultiples) =>
        \A plan \in {OutPlan} :
            plan.err.type = "" =>
                /\ (out.err = Err("RuntimeError", 382))
                       <=> (TotalDemand > Len(plan.packet_starts))
                /\ (out.err = Err("RuntimeError", 382)) =>
                       /\ out.writes = <<>>
                       /\ hw = BlankHw
                       /\ ~reorder.set

C14_Witness ==
    /\ Configured
    /\ DestsAreMultiples
    /\ Len(OutPlan.packet_starts) > 0
    /\ TotalDemand = Len(OutPlan.packet_starts) + 1
    /\ out.err = Err("RuntimeError", 382)

\* The internal channel indices of the slots the call consumed, and the output
\* channels the destinations asked for.
ConsumedChannels(plan) ==
    UNION {RangeSet(plan.channel_indices[s]) : s \in 1..TotalDemand}
RequestedChannels ==
    UNION {RangeSet(<<out.dests[i].start_chan, out.dests[i].start_chan + out.dests[i].nchan>>) :
               i \in 1..Len(out.dests)}
RECURSIVE SumNchan(_)
SumNchan(i) == IF i < 1 THEN 0 ELSE SumNchan(i - 1) + out.dests[i].nchan

\* C15: for every accepted destination list the map handed to the channel
\* reorder covers exactly sum(nchan) internal channel indices, those of the
\* consumed slots; the output channels assigned to them contain no duplicate
\* and are together the union of the requested ranges [start_chan, start_chan + nchan).
C15_ReindexMap ==
    Accepted =>
        \A covered \in {ConsumedChannels(OutPlan)} :
            /\ reorder.set
            /\ Cardinality(covered) = SumNchan(Len(out.dests))
            /\ \A a, b \in covered : a # b => reorder.chan_map[a] # reorder.chan_map[b]
            /\ {reorder.chan_map[a] : a \in covered} = RequestedChannels

\* C18: after an accepted call every position of the image that is neither
\* the start nor a payload position of a slot handed to write_config (the first
\* sum(nchan / nchan_packet) planner slots) has flags 0, ant_chan 0, IP 0 and
\* port 0: the padding between packets and the planner slots that no
\* destination consumed are left invalid.
C18_RestIsBlank ==
    Accepted =>
        \A plan \in {OutPlan} :
            \A enc \in {UNION {{plan.packet_starts[s]} \cup RangeSet(plan.packet_payloads[s]) :
                                   s \in 1..TotalDemand}} :
                \A x \in 0..(pkz.n_total_blocks - 1) :
                    x \notin enc =>
                        /\ hw.flags[x] = 0
                        /\ hw.ant_chan[x] = <<0, 0>>
                        /\ hw.ips[x] = <<0, 0>>
                        /\ hw.ports[x] = 0

\* Slots were encoded, with padding after the first, and a planner slot was
\* left over.
C18_Witness ==
    /\ Accepted
    /\ TotalDemand >= 2
    /\ TotalDemand < Len(OutPlan.packet_starts)
    /\ OutPlan.packet_payloads[1][2] < OutPlan.packet_starts[2]
    /\ hw.flags[OutPlan.packet_starts[1]] # 0
    /\ hw.flags[OutPlan.packet_starts[TotalDemand + 1]] = 0

-----------------------------------------------------------------------------
(* Properties of Packetizer.write_config *)

WriteOk == wr.n >= 1 /\ wr.err.type = ""

NSlots == Len(wr.slots)
LastPayload(i) == wr.slots[i].payload[2] - 1

\* a | b on non-negative integers
RECURSIVE BitOr(_, _)
BitOr(a, b) ==
    IF a = 0 THEN b
    ELSE IF b = 0 THEN a
    ELSE 2 * BitOr(a \div 2, b \div 2) + (IF a % 2 = 1 \/ b % 2 = 1 THEN 1 ELSE 0)

\* (sender_id << 16) | channel_start as two base-65536 digits
ShiftedOr(sender_id, channel_start) ==
    <<BitOr(sender_id, channel_start \div 65536), channel_start % 65536>>

\* C16: in the image of a successful write_config, for every slot the position
\* packet_starts[i] has is_header = 1 and is_valid = 1 and its ant_chan field
\* is (sender_id << 16) | channel_start, whatever the payload length.
C16_StartIsHeader ==
    WriteOk =>
        \A i \in 1..NSlots :
            /\ deformat_flags(hw.flags[wr.slots[i].start]).is_hdr
            /\ deformat_flags(hw.flags[wr.slots[i].start]).is_vld
            /\ hw.ant_chan[wr.slots[i].start] = ShiftedOr(wr.slots[i].ant, wr.slots[i].chan)

\* C17: in the image of a successful write_config every payload position of
\* every slot has is_valid = 1; is_eof = 1 is at exactly one position of the
\* slot, its last payload position, where is_header = 0; is_header = 1 is at no
\* payload position but the slot's start; the slot's IP and port are at its
\* last payload position, and every position that is no slot's last payload
\* position holds IP 0 and port 0.
C17_PayloadFlags ==
    WriteOk =>
        /\ \A i \in 1..NSlots :
              /\ \A x \in RangeSet(wr.slots[i].payload) : deformat_flags(hw.flags[x]).is_vld
              /\ {x \in RangeSet(wr.slots[i].payload) : deformat_flags(hw.flags[x]).is_eof}
                     = {LastPayload(i)}
              /\ ~deformat_flags(hw.flags[LastPayload(i)]).is_hdr
              /\ \A x \in RangeSet(wr.slots[i].payload) \ {wr.slots[i].start} :
                     ~deformat_flags(hw.flags[x]).is_hdr
              /\ hw.ips[LastPayload(i)] = ip2int(wr.slots[i].ip)
              /\ hw.ports[LastPayload(i)] = wr.slots[i].port
        /\ \A x \in 0..(pkz.n_total_blocks - 1) :
              x \notin {LastPayload(i) : i \in 1..NSlots} =>
                  hw.ips[x] = <<0, 0>> /\ hw.ports[x] = 0

\* C19: decoding the image of a successful write_config returns, for every
\* slot, the sender id and channel start at its start position, the IP and
\* port at its last payload position, and at every payload position the flag
\* bits the encoder gave it: valid everywhere, EOF at the last position only,
\* header at the start unless the start is the last position.
C19_RoundTrip ==
    WriteOk =>
        \A i \in 1..NSlots :
            /\ deformat_ant_chan(hw.ant_chan[wr.slots[i].start]) =
                   [ant |-> wr.slots[i].ant, chan |-> wr.slots[i].chan]
            /\ RangeLen(wr.slots[i].payload) > 0
            /\ hw.ips[LastPayload(i)] = ip2int(wr.slots[i].ip)
            /\ hw.ports[LastPayload(i)] = wr.slots[i].port
            /\ \A x \in RangeSet(wr.slots[i].payload) :
                   deformat_flags(hw.flags[x]) =
                       [is_hdr |-> x = wr.slots[i].start /\ x # LastPayload(i),
                        is_vld |-> TRUE,
                        is_eof |-> x = LastPayload(i)]

\* The six lists of the last call.
WrStarts == [k \in 1..NSlots |-> wr.slots[k].start]
WrPayloads == [k \in 1..NSlots |-> wr.slots[k].payload]
WrChans == [k \in 1..NSlots |-> wr.slots[k].chan]
WrAnts == [k \in 1..NSlots |-> wr.slots[k].ant]
WrIps == [k \in 1..NSlots |-> wr.slots[k].ip]
WrPorts == [k \in 1..NSlots |-> wr.slots[k].port]

\* C20: after any sequence of write_config calls of which the last succeeded,
\* the regions ant_chan, ips, ports and flags are the encoding of the last
\* call's arguments on arrays of zeros, whatever the registers held before.
C20_ImageOfLastCall ==
    WriteOk =>
        \A im \in {EncodeSlots(BlankImage(pkz.n_total_blocks), pkz.n_total_blocks, 1,
                               WrStarts, WrPayloads, WrChans, WrAnts, WrIps, WrPorts)} :
            /\ hw.ant_chan = im.ant_chans
            /\ hw.ips = im.ips
            /\ hw.ports = im.ports
            /\ hw.flags = im.flags

\* A second successful call cleared a position the earlier configuration had
\* flagged.
C20_Witness ==
    /\ WriteOk
    /\ wr.n = 2
    /\ wr.flags_before # <<>>
    /\ \E x \in 0..(pkz.n_total_blocks - 1) : wr.flags_before[x] # 0 /\ hw.flags[x] = 0

-----------------------------------------------------------------------------
(* Order of the writes of _configure_output *)

SixWrites == <<"ant_chan", "ips", "ports", "flags", "n_chans", "n_pols">>

\* C21: when write_config has returned normally inside _configure_output, the
\* regions ant_chan, ips, ports and flags have been written in this order, each
\* with n_total_blocks entries, and then the n_chans and n_pols registers; and
\* the channel-reorder map is set only in a call whose six writes are complete.
C21_AllWrittenBeforeReorder ==
    /\ Accepted =>
          /\ out.writes = SixWrites
          /\ DOMAIN hw.ant_chan = 0..(pkz.n_total_blocks - 1)
          /\ DOMAIN hw.ips = 0..(pkz.n_total_blocks - 1)
          /\ DOMAIN hw.ports = 0..(pkz.n_total_blocks - 1)
          /\ DOMAIN hw.flags = 0..(pkz.n_total_blocks - 1)
          /\ hw.n_chans = <<out.nchan_packet>>
          /\ hw.n_pols = <<feng.n_inputs>>
    /\ reorder.set => (Configured /\ out.writes = SixWrites)

C21_Witness ==
    /\ Accepted
    /\ reorder.set
    /\ TotalDemand >= 1
    /\ \E x \in 0..(pkz.n_total_blocks - 1) : hw.flags[x] # 0


-----------------------------------------------------------------------------
(* State machine of SnapFengine.configure *)

\* Files that exist on the control computer.
ExistingFiles == {"snap_f.fpg"}

\* A call into a block that talks to the board either returns or raises what
\* the transport raises.
BoardCall(line) == {NoErr, Err("HardwareError", line)}

STAGES == 13
DEFAULT_SHIFT == 7903

\* Pfb.set_fft_shift(shift): the value of the shift field of ctrl afterwards.
\* SHIFT_MASK is 0, so no stage is hard coded and the value is never adjusted.
set_fft_shift(shift) == PyMod(shift, 2 ^ STAGES)

\* SnapFengine.program(fpgfile): the ways the call can end.
program(fpgfile) ==
    IF fpgfile = None
    THEN {Err("TypeError", 297)}
    ELSE IF fpgfile[1] # "" /\ fpgfile[1] \notin ExistingFiles
    THEN {Err("RuntimeError", 304)}
    ELSE BoardCall(306) \cup BoardCall(307) \cup BoardCall(309)

\* The arguments of configure.
SourceIp == <<100, 100, 100, 100>>
CfgProgramSet == BOOLEAN
CfgFpgfileSet == {None, Some(""), Some("snap_f.fpg"), Some("missing.fpg")}
CfgFftShiftSet == {None, Some(1365)}
CfgEqSet == {None, Some(<<>>), Some(<<300>>)}
CfgMacsSet == {{SourceIp, <<10, 41, 0, 1>>}, {<<10, 41, 0, 1>>}}
CfgDestsSet ==
    { <<Dest(<<10, 41, 0, 1>>, 10000, 0, 64)>>,
      <<Dest(<<10, 41, 0, 1>>, 10000, 0, 64), Dest(<<10, 41, 0, 2>>, 10001, 64, 128)>>,
      <<Dest(<<10, 41, 0, 6>>, 10000, 0, 512)>> }
CfgNchanPacketSet == {64}
CfgFengIdSet == {0}

\* One statement of configure has run: a call it made is logged with its
\* outcome; an exception leaves configure, otherwise the next statement runs.
ProceedPastOutputErrors(c, call, err, next) ==
    [c EXCEPT !.log = IF call = "" THEN @ ELSE Append(@, [call |-> call, ok |-> err.type = ""]),
              !.err = err,
              !.pc = IF err.type \in {"", "RuntimeError"} THEN next ELSE "raised"]

Proceed(c, call, err, next) ==
    [c EXCEPT !.log = IF call = "" THEN @ ELSE Append(@, [call |-> call, ok |-> err.type = ""]),
              !.err = err,
              !.pc = IF err.type = "" THEN next ELSE "raised"]

\* feng.configure(source_ip, source_port, program, fpgfile, dests, macs,
\*                nchan_packet, fft_shift, eq, sw_sync, enable_tx, feng_id)
Configure ==
    /\ feng.made
    /\ pkz.ctor = "ok"
    /\ cfg.pc = "idle"
    /\ \E pr \in CfgProgramSet, fpg \in CfgFpgfileSet, sh \in CfgFftShiftSet,
          e \in CfgEqSet, macs \in CfgMacsSet, dests \in CfgDestsSet,
          c \in CfgNchanPacketSet, id \in CfgFengIdSet, sw \in BOOLEAN, tx \in BOOLEAN :
          cfg' = [cfg EXCEPT !.pc = "program",
                             !.args = [program |-> pr, fpgfile |-> fpg, fft_shift |-> sh,
                                       eq |-> e, source_ip |-> SourceIp, macs |-> macs,
                                       dests |-> dests, nchan_packet |-> c, feng_id |-> id,
                                       sw_sync |-> sw, enable_tx |-> tx]]
    /\ UNCHANGED <<pkz, ret, feng, hw, reorder, out, wr, eqb>>

\* if program: self.program(fpgfile)
Program ==
    /\ cfg.pc = "program"
    /\ IF cfg.args.program
       THEN \E e \in program(cfg.args.fpgfile) :
               cfg' = Proceed(cfg, "program", e, "initialize")
       ELSE cfg' = Proceed(cfg, "", NoErr, "initialize")
    /\ UNCHANGED <<pkz, ret, feng, hw, reorder, out, wr, eqb>>

\* self.initialize(): every block but the ADC is initialized (the PFB sets its
\* default shift), then the sync is armed and issued by software.
Initialize ==
    /\ cfg.pc = "initialize"
    /\ \E e \in BoardCall(490) :
          cfg' = [Proceed(cfg, "initialize", e, "eth.reset") EXCEPT
                      !.pfb_ctrl = IF e.type = "" THEN set_fft_shift(DEFAULT_SHIFT) ELSE @]
    /\ UNCHANGED <<pkz, ret, feng, hw, reorder, out, wr, eqb>>

\* self.eth.reset()
EthReset ==
    /\ cfg.pc = "eth.reset"
    /\ \E e \in BoardCall(491) :
          cfg' = Proceed(cfg, "eth.reset", e, "fft_shift")
    /\ UNCHANGED <<pkz, ret, feng, hw, reorder, out, wr, eqb>>

\* if fft_shift is not None: self.pfb.set_fftshift(fft_shift)
\* Pfb has no attribute set_fftshift (its method is set_fft_shift).
SetFftShift ==
    /\ cfg.pc = "fft_shift"
    /\ IF cfg.args.fft_shift # None
       THEN cfg' = Proceed(cfg, "pfb.set_fftshift", Err("AttributeError", 494), "eq")
       ELSE cfg' = Proceed(cfg, "", NoErr, "eq")
    /\ UNCHANGED <<pkz, ret, feng, hw, reorder, out, wr, eqb>>

\* if eq is not None: for eqi in eq: self.eq.set_coeffs(eqi)
\* Eq.set_coeffs(inputid, coeffs) takes two arguments.
SetEq ==
    /\ cfg.pc = "eq"
    /\ IF cfg.args.eq # None /\ Len(cfg.args.eq[1]) > 0
       THEN cfg' = Proceed(cfg, "eq.set_coeffs", Err("TypeError", 498), "add_arp_entry")
       ELSE cfg' = Proceed(cfg, "", NoErr, "add_arp_entry")
    /\ UNCHANGED <<pkz, ret, feng, hw, reorder, out, wr, eqb>>

\* for ip, mac in macs.items(): self.eth.add_arp_entry(ip, mac)
AddArpEntries ==
    /\ cfg.pc = "add_arp_entry"
    /\ \E e \in BoardCall(501) :
          cfg' = Proceed(cfg, "eth.add_arp_entry", e, "source_ip")
    /\ UNCHANGED <<pkz, ret, feng, hw, reorder, out, wr, eqb>>

\* A destination without a MAC is only logged; a source without one raises.
CheckSource ==
    /\ cfg.pc = "source_ip"
    /\ IF cfg.args.source_ip \notin cfg.args.macs
       THEN cfg' = Proceed(cfg, "", Err("ValueError", 509), "configure_source")
       ELSE cfg' = Proceed(cfg, "", NoErr, "configure_source")
    /\ UNCHANGED <<pkz, ret, feng, hw, reorder, out, wr, eqb>>

\* self.eth.configure_source(macs[source_ip], source_ip, source_port)
ConfigureSource ==
    /\ cfg.pc = "configure_source"
    /\ \E e \in BoardCall(511) :
          cfg' = Proceed(cfg, "eth.configure_source", e, "_configure_output")
    /\ UNCHANGED <<pkz, ret, feng, hw, reorder, out, wr, eqb>>

\* self._configure_output(dests, nchan_packet, feng_id)
ConfigureOutputStep ==
    /\ cfg.pc = "_configure_output"
    /\ \E r \in {configure_output(feng, pkz, hw, cfg.args.dests, cfg.args.nchan_packet,
                                  cfg.args.feng_id)} :
          /\ out' = [op |-> "_configure_output", dests |-> cfg.args.dests,
                     nchan_packet |-> cfg.args.nchan_packet, feng_id |-> cfg.args.feng_id,
                     err |-> r.err, writes |-> r.writes]
          /\ hw' = r.hw
          /\ reorder' = [set |-> r.reorder_set, chan_map |-> r.chan_map]
          /\ cfg' = Proceed(cfg, "_configure_output", r.err, "update_timekeeping")
    /\ UNCHANGED <<pkz, ret, feng, wr, eqb>>

\* self.update_timekeeping()
UpdateTimekeeping ==
    /\ cfg.pc = "update_timekeeping"
    /\ \E e \in BoardCall(514) :
          cfg' = Proceed(cfg, "update_timekeeping", e, "arm_sync")
    /\ UNCHANGED <<pkz, ret, feng, hw, reorder, out, wr, eqb>>

\* self.sync.arm_sync(wait_for_sync=True)
ArmSync ==
    /\ cfg.pc = "arm_sync"
    /\ \E e \in BoardCall(516) :
          cfg' = Proceed(cfg, "sync.arm_sync", e, "sync")
    /\ UNCHANGED <<pkz, ret, feng, hw, reorder, out, wr, eqb>>

\* if sw_sync: self.sync.sw_sync()  else: self.sync.wait_for_sync()
Sync ==
    /\ cfg.pc = "sync"
    /\ IF cfg.args.sw_sync
       THEN \E e \in BoardCall(518) :
               cfg' = Proceed(cfg, "sync.sw_sync", e, "status_reset")
       ELSE \E e \in BoardCall(520) :
               cfg' = Proceed(cfg, "sync.wait_for_sync", e, "status_reset")
    /\ UNCHANGED <<pkz, ret, feng, hw, reorder, out, wr, eqb>>

\* self.eth.status_reset()
StatusReset ==
    /\ cfg.pc = "status_reset"
    /\ \E e \in BoardCall(524) :
          cfg' = Proceed(cfg, "eth.status_reset", e, "enable_tx")
    /\ UNCHANGED <<pkz, ret, feng, hw, reorder, out, wr, eqb>>

\* if enable_tx: self.eth.enable_tx()
EnableTx ==
    /\ cfg.pc = "enable_tx"
    /\ IF cfg.args.enable_tx
       THEN \E e \in BoardCall(526) :
               cfg' = Proceed(cfg, "eth.enable_tx", e, "returned")
       ELSE cfg' = Proceed(cfg, "", NoErr, "returned")
    /\ UNCHANGED <<pkz, ret, feng, hw, reorder, out, wr, eqb>>

NextCfg ==
    \/ SnapFengineInit
    \/ Configure
    \/ Program
    \/ Initialize
    \/ EthReset
    \/ SetFftShift
    \/ SetEq
    \/ AddArpEntries
    \/ CheckSource
    \/ ConfigureSource
    \/ ConfigureOutputStep
    \/ UpdateTimekeeping
    \/ ArmSync
    \/ Sync
    \/ StatusReset
    \/ EnableTx

SpecCfg == Init /\ [][NextCfg]_vars


-----------------------------------------------------------------------------
(* Properties of SnapFengine.configure *)

\* The positions in the log of the calls of one name, and the first of them
\* (0 when there is none).
CallIndex(name) == {i \in 1..Len(cfg.log) : cfg.log[i].call = name}
FirstCall(name) ==
    IF CallIndex(name) = {} THEN 0
    ELSE CHOOSE i \in CallIndex(name) : \A j \in CallIndex(name) : i <= j
FirstSync ==
    IF FirstCall("sync.sw_sync") > 0 THEN FirstCall("sync.sw_sync")
    ELSE FirstCall("sync.wait_for_sync")

\* C22: eth.enable_tx is called only after eth.reset, a successful
\* _configure_output (packetizer written, reorder map set), update_timekeeping
\* and the sync (arm_sync, then sw_sync or wait_for_sync) have been called, in
\* this order, and every call before it returned; when an earlier statement of
\* configure has raised, enable_tx has not been called.
C22_TxOnlyAfterSetup ==
    /\ \A t \in CallIndex("eth.enable_tx") :
          /\ \A j \in 1..(t - 1) : cfg.log[j].ok
          /\ 0 < FirstCall("eth.reset")
          /\ FirstCall("eth.reset") < FirstCall("_configure_output")
          /\ FirstCall("_configure_output") < FirstCall("update_timekeeping")
          /\ FirstCall("update_timekeeping") < FirstCall("sync.arm_sync")
          /\ FirstCall("sync.arm_sync") < FirstSync
          /\ FirstSync < t
          /\ out.op = "_configure_output"
          /\ out.err = NoErr
          /\ out.writes = SixWrites
          /\ reorder.set
    /\ (cfg.pc = "raised" /\ cfg.err.line # 526) => CallIndex("eth.enable_tx") = {}

C22_Witness ==
    /\ cfg.pc = "returned"
    /\ cfg.args.enable_tx
    /\ CallIndex("eth.enable_tx") # {}
    /\ reorder.set


\* C24: program(None) reboots the loaded image and reinitializes the blocks
\* instead of failing on its argument, so that a configure call with
\* program=True and fpgfile=None gets past the programming step whenever the
\* board calls of program succeed.
C24_ProgramNoneReboots ==
    (FirstCall("program") > 0 /\ cfg.args.fpgfile = None) =>
        /\ cfg.err # Err("TypeError", 297)
        /\ cfg.log[FirstCall("program")].ok \/ cfg.err.type = "HardwareError"

\* C25: a configure call with fft_shift not None that reaches the FFT-shift
\* statement sets the shift field of the PFB ctrl register to the given value
\* and goes on to the following statements.
C25_FftShiftSet ==
    (cfg.pc \notin {"idle", "program", "initialize", "eth.reset", "fft_shift"}
        /\ FirstCall("eth.reset") > 0
        /\ cfg.log[FirstCall("eth.reset")].ok
        /\ cfg.args.fft_shift # None) =>
        /\ cfg.pfb_ctrl = cfg.args.fft_shift[1]
        /\ FirstCall("pfb.set_fftshift") > 0
        /\ cfg.log[FirstCall("pfb.set_fftshift")].ok


-----------------------------------------------------------------------------
(* Further properties of Packetizer.get_packet_info *)

\* The occupancy of the request lies strictly between the advisory threshold
\* and the line rate.
ReqInAdvisoryBand ==
    /\ RGt(ReqOccupancy, ADVISORY_OCCUPANCY)
    /\ RLt(ReqOccupancy, RInt(1))

\* C23: a request with valid arguments (a positive multiple of
\* n_chans_per_block, occupation inside (0, 1), payload at most 8192 bytes)
\* whose occupancy is strictly between 0.95 and 1 logs the critical message
\* and returns the complete plan: one slot per planned packet, the plan the
\* layout loop computes.
C23_AdvisoryOnly ==
    ( /\ Called
      /\ ReqChans > 0
      /\ ReqPassesArgumentChecks
      /\ RGt(ReqOccupation, RInt(0))
      /\ ReqInAdvisoryBand )
    => /\ ret.res.critical
       /\ Returned
       /\ NPackets = ReqPackets


ReqSpareChans ==
    pkz.n_chans_per_block *
    PyFloorDiv(PyFloorDiv(pkz.n_chans - ReqSentChans, ReqPackets), pkz.n_chans_per_block)

\* C27: with spare_chans_per_packet = n_chans_per_block * (((n_chans -
\* sent_channels) // n_packets) // n_chans_per_block), slot i (from 0) of every
\* returned plan starts at word i * (channels_per_packet +
\* spare_chans_per_packet) * n_words_per_chan, and the distance from the end of
\* each payload to the next start is the same whole number of blocks,
\* spare_chans_per_packet / n_chans_per_block.
C27_PaddingSplitEvenly ==
    (Returned /\ NPackets >= 1) =>
        /\ ret.res.spare_chans_per_packet = ReqSpareChans
        /\ \A i \in 1..NPackets :
              ret.res.packet_starts[i] * pkz.n_words_per_block
                  = (i - 1) * (ReqChans + ReqSpareChans) * pkz.n_words_per_chan
        /\ \A i \in 1..(NPackets - 1) :
              (ret.res.packet_starts[i + 1] - ret.res.packet_payloads[i][2])
                  * pkz.n_chans_per_block = ReqSpareChans

C27_Witness ==
    /\ Returned
    /\ NPackets >= 3
    /\ ReqSpareChans > 0
    /\ PyMod(pkz.n_chans - ReqSentChans, ReqPackets * pkz.n_chans_per_block) # 0
    /\ ret.res.packet_starts[3] - ret.res.packet_payloads[2][2]
           = ret.res.packet_starts[2] - ret.res.packet_payloads[1][2]


-----------------------------------------------------------------------------
(* Further properties of SnapFengine._configure_output *)

\* floor(occupation * line_rate / full_rate * n_chans) for the packetizer of
\* the F-engine.
BudgetChans(occupation) ==
    RFloor(RMul(RDiv(RMul(occupation, RInt(line_rate_gbps)), full_data_rate_gbps(pkz)),
                RInt(pkz.n_chans)))

\* C28: when the budget floor(occupation * line_rate / full_rate * n_chans) is
\* below channels_per_packet > 0, for an occupation > 0, get_packet_info
\* raises and returns no plan; and a _configure_output call that gets to the
\* planner with such a packet size (at occupation 0.9) ends with the
\* RuntimeError of line 366, has written no packetizer region, and leaves the
\* registers and the reorder map as they were.
C28_NoPacketIsAnError ==
    (Configured /\ out.nchan_packet > 0 /\ DestsRejected(out.dests, out.nchan_packet) = NoErr)
    => /\ \A o \in OccupationSet :
             (RGt(o, RInt(0)) /\ BudgetChans(o) < out.nchan_packet) =>
                 \A r \in {get_packet_info(pkz, out.nchan_packet, o)} :
                     /\ r.err.type # ""
                     /\ r.packet_starts = <<>>
                     /\ r.packet_payloads = <<>>
                     /\ r.channel_indices = <<>>
       /\ BudgetChans(MAX_OUTPUT_OCCUPANCY) < out.nchan_packet =>
             /\ out.err = Err("RuntimeError", 366)
             /\ out.writes = <<>>
             /\ hw = BlankHw
             /\ ~reorder.set

C28_Witness ==
    /\ Configured
    /\ out.nchan_packet > 0
    /\ Len(out.dests) >= 1
    /\ DestsRejected(out.dests, out.nchan_packet) = NoErr
    /\ BudgetChans(MAX_OUTPUT_OCCUPANCY) >= 1
    /\ BudgetChans(MAX_OUTPUT_OCCUPANCY) < out.nchan_packet
    /\ OutPlan.err = Err("ZeroDivisionError", 150)
    /\ out.err = Err("RuntimeError", 366)


\* The packets the loops of lines 377-389 place for destination i (range(npkt)
\* is empty for npkt <= 0), and the slots consumed before destination i.
PktsOf(i) ==
    IF PyFloorDiv(out.dests[i].nchan, out.nchan_packet) > 0
    THEN PyFloorDiv(out.dests[i].nchan, out.nchan_packet)
    ELSE 0
RECURSIVE SlotsBefore(_)
SlotsBefore(i) == IF i <= 1 THEN 0 ELSE SlotsBefore(i - 1) + PktsOf(i - 1)

\* C29: the reorder map set by an accepted call has exactly n_chans entries;
\* an index in the channel range of the k-th slot of destination i holds
\* start_chan + k * nchan_packet + (its offset within the slot), and an index
\* in no consumed slot's channel range holds 0.
C29_ReindexMapValues ==
    Accepted =>
        \A plan \in {OutPlan} :
            /\ reorder.set
            /\ DOMAIN reorder.chan_map = 0..(feng.n_chans - 1)
            /\ \A i \in 1..Len(out.dests) :
                  \A k \in 0..(PktsOf(i) - 1) :
                      \A x \in RangeSet(plan.channel_indices[SlotsBefore(i) + k + 1]) :
                          reorder.chan_map[x] =
                              out.dests[i].start_chan + k * out.nchan_packet
                                  + (x - plan.channel_indices[SlotsBefore(i) + k + 1][1])
            /\ \A x \in 0..(feng.n_chans - 1) :
                  (\A s \in 1..SlotsBefore(Len(out.dests) + 1) :
                       x \notin RangeSet(plan.channel_indices[s]))
                  => reorder.chan_map[x] = 0

C29_Witness ==
    /\ Accepted
    /\ Len(out.dests) = 2
    /\ out.dests[2].start_chan > 0
    /\ PktsOf(2) >= 2
    /\ SlotsBefore(3) < Len(OutPlan.packet_starts)
    /\ \E x \in 0..(feng.n_chans - 1) : reorder.chan_map[x] = out.dests[2].start_chan + 1
    /\ \E x \in 1..(feng.n_chans - 1) :
          /\ reorder.chan_map[x] = 0
          /\ \A s \in 1..SlotsBefore(3) : x \notin RangeSet(OutPlan.channel_indices[s])


-----------------------------------------------------------------------------
(* State machine of the Eq block *)

\* struct.calcsize(_FORMAT) for _FORMAT = 'H'
FORMAT_SIZE == 2

\* Eq(host, name, n_inputs, n_parallel_inputs, n_coeffs)
EqInit(n_inputs, n_parallel_inputs, n_coeffs) ==
    LET obj == [NoEq EXCEPT !.n_inputs = n_inputs,
                            !.n_parallel_inputs = n_parallel_inputs]
    IN  IF n_parallel_inputs = 0
        THEN [obj EXCEPT !.ctor = "ZeroDivisionError"]
        ELSE IF PyMod(n_inputs, n_parallel_inputs) # 0
        THEN [obj EXCEPT !.ctor = "AssertionError"]
        ELSE [obj EXCEPT !.ctor = "ok",
                         !.n_serial_inputs = PyFloorDiv(n_inputs, n_parallel_inputs),
                         !.n_coeffs = n_coeffs,
                         !.stream_size = FORMAT_SIZE * n_coeffs]

\* An offset counted in bytes of the index, not in streams.
BramOffsetUnscaled(e, inputid) == PyMod(inputid, e.n_serial_inputs)

\* bram_offset = (inputid % self.n_serial_inputs) * self._stream_size
BramOffset(e, inputid) == PyMod(inputid, e.n_serial_inputs) * e.stream_size

\* bram_name = f"core_coeffs{bram_index}" with bram_index = inputid // self.n_serial_inputs
BramName(e, inputid) == <<"core_coeffs", PyFloorDiv(inputid, e.n_serial_inputs)>>

\* Eq._get_ramname_offset(inputid): the ways the call can end. The error
\* helper called at line 80 belongs to the Block base class: either it is
\* missing and the call ends there, or it returns and line 81 raises.
get_ramname_offset(e, inputid) ==
    IF ~(inputid < e.n_inputs)
    THEN { [err |-> Err("AttributeError", 80), bram_name |-> <<>>, bram_offset |-> 0],
           [err |-> Err("ValueError", 81), bram_name |-> <<>>, bram_offset |-> 0] }
    ELSE IF e.n_serial_inputs = 0
    THEN { [err |-> Err("ZeroDivisionError", 82), bram_name |-> <<>>, bram_offset |-> 0] }
    ELSE { [err |-> NoErr, bram_name |-> BramName(e, inputid),
            bram_offset |-> BramOffset(e, inputid)] }

\* The block after a call op(inputid) that looked the region up with outcome
\* r and, when the lookup returned, accessed _stream_size bytes of it.
EqAccess(e, op, inputid, r) ==
    [e EXCEPT !.op = op, !.inputid = inputid, !.err = r.err,
              !.accesses = IF r.err.type # "" THEN @
                           ELSE @ \cup {[inputid |-> inputid, bram_name |-> r.bram_name,
                                         offset |-> r.bram_offset, size |-> e.stream_size]}]

EqInputsSet == {2, 4}
EqParallelInputsSet == {0, 1, 2, 3}
EqCoeffsSet == {1, 4}
EqInputIdSet == {0 - 1, 0, 1, 2, 3, 4, 5}

EqNew ==
    /\ eqb.ctor = "none"
    /\ \E ni \in EqInputsSet, np \in EqParallelInputsSet, nc \in EqCoeffsSet :
          eqb' = EqInit(ni, np, nc)
    /\ UNCHANGED <<pkz, ret, feng, hw, reorder, out, wr, cfg>>

\* eq.get_coeffs(inputid): the lookup, then a read of _stream_size bytes.
GetCoeffs ==
    /\ eqb.ctor = "ok"
    /\ \E inputid \in EqInputIdSet :
          \E r \in get_ramname_offset(eqb, inputid) :
              eqb' = EqAccess(eqb, "get_coeffs", inputid, r)
    /\ UNCHANGED <<pkz, ret, feng, hw, reorder, out, wr, cfg>>

\* eq.set_coeffs(inputid, coeffs) with len(coeffs) = n: the length is
\* asserted, then the lookup, then a write of the packed coefficients.
SetCoeffs ==
    /\ eqb.ctor = "ok"
    /\ \E inputid \in EqInputIdSet, n \in {eqb.n_coeffs, eqb.n_coeffs + 1} :
          IF n # eqb.n_coeffs
          THEN eqb' = [eqb EXCEPT !.op = "set_coeffs", !.inputid = inputid,
                                  !.err = Err("AssertionError", 64)]
          ELSE \E r \in get_ramname_offset(eqb, inputid) :
                  eqb' = EqAccess(eqb, "set_coeffs", inputid, r)
    /\ UNCHANGED <<pkz, ret, feng, hw, reorder, out, wr, cfg>>

NextEq == EqNew \/ GetCoeffs \/ SetCoeffs

SpecEq == Init /\ [][NextEq]_vars

-----------------------------------------------------------------------------
(* Properties of Eq._get_ramname_offset *)

\* The accesses made for input indices inside [0, n_inputs).
ValidAccesses == {a \in eqb.accesses : 0 <= a.inputid /\ a.inputid < eqb.n_inputs}

\* C30: the regions accessed for distinct input indices in [0, n_inputs) have
\* distinct (bram name, byte offset) pairs and, within one bram, do not overlap
\* as ranges of _stream_size = 2 * n_coeffs bytes; their bram index is in
\* [0, n_parallel_inputs); and a call for an index >= n_inputs raises and
\* accesses no register.
C30_RegionsDisjoint ==
    eqb.ctor = "ok" =>
        /\ \A a \in ValidAccesses :
              /\ a.bram_name[1] = "core_coeffs"
              /\ 0 <= a.bram_name[2]
              /\ a.bram_name[2] < eqb.n_parallel_inputs
        /\ \A a, b \in ValidAccesses :
              a.inputid # b.inputid =>
                  /\ <<a.bram_name, a.offset>> # <<b.bram_name, b.offset>>
                  /\ a.bram_name = b.bram_name =>
                        \/ a.offset + FORMAT_SIZE * eqb.n_coeffs <= b.offset
                        \/ b.offset + FORMAT_SIZE * eqb.n_coeffs <= a.offset
        /\ \A a \in eqb.accesses : a.inputid < eqb.n_inputs
        /\ (eqb.op # "none" /\ eqb.inputid >= eqb.n_inputs) => eqb.err.type # ""

C30_Witness ==
    /\ eqb.ctor = "ok"
    /\ eqb.n_serial_inputs >= 2
    /\ eqb.n_parallel_inputs >= 2
    /\ Cardinality(ValidAccesses) = eqb.n_inputs
    /\ eqb.op = "get_coeffs"
    /\ eqb.inputid >= eqb.n_inputs
    /\ eqb.err = Err("ValueError", 81)

====
